---------------------------- MODULE Spec2Model ----------------------------
(***************************************************************************)
(* A model of shortcut-rs: the ShortcutFile record and its builder, the    *)
(* facade (save / read), the desktop-entry text codec (linux.rs) and the   *)
(* shell-link codec (windows.rs).                                          *)
(*                                                                         *)
(* Text is modelled character by character: a string is a sequence of      *)
(* one-character strings, a file is the sequence of its characters.        *)
(* Option<T> is a sequence of length at most one: None is << >> and        *)
(* Some(x) is <<x>>.                                                       *)
(***************************************************************************)
EXTENDS Integers, Sequences, FiniteSets, TLC

(***************************************************************************)
(* Text helpers (the std string operations the codecs call).               *)
(***************************************************************************)

None == << >>
Some(x) == <<x>>
IsSome(o) == Len(o) = 1
Unwrap(o) == o[1]

\* A byte sequence that is not valid UTF-8, as one pseudo-character: a path
\* holding it has no &str view (Path::to_str returns None).
BadByte == "xFF"
\* The NUL character, which CString::new rejects.
Nul == "x00"

Whitespace == {" ", "\t", "\n", "\r"}

\* The index of the first c in s, or 0.
RECURSIVE FindFrom(_, _, _)
FindFrom(s, c, i) ==
    IF i > Len(s) THEN 0
    ELSE IF s[i] = c THEN i
    ELSE FindFrom(s, c, i + 1)

Find(s, c) == FindFrom(s, c, 1)

\* str::split(c): the pieces between the separators, empty pieces kept; a
\* string without the separator is one piece.
RECURSIVE Split(_, _)
Split(s, c) ==
    LET i == Find(s, c)
    IN  IF i = 0 THEN <<s>>
        ELSE <<SubSeq(s, 1, i - 1)>> \o Split(SubSeq(s, i + 1, Len(s)), c)

\* [String]::join(sep)
RECURSIVE Join(_, _)
Join(parts, sep) ==
    IF Len(parts) = 0 THEN << >>
    ELSE IF Len(parts) = 1 THEN parts[1]
    ELSE parts[1] \o sep \o Join(Tail(parts), sep)

RECURSIVE TrimStart(_)
TrimStart(s) ==
    IF Len(s) > 0 /\ s[1] \in Whitespace THEN TrimStart(Tail(s)) ELSE s

RECURSIVE TrimEnd(_)
TrimEnd(s) ==
    IF Len(s) > 0 /\ s[Len(s)] \in Whitespace
    THEN TrimEnd(SubSeq(s, 1, Len(s) - 1))
    ELSE s

\* str::trim
Trim(s) == TrimEnd(TrimStart(s))

StripCr(l) ==
    IF Len(l) > 0 /\ l[Len(l)] = "\r" THEN SubSeq(l, 1, Len(l) - 1) ELSE l

\* str::lines: split at "\n", a "\r" before it dropped, no empty last line
\* after a final "\n".
Lines(s) ==
    LET parts == Split(s, "\n")
        n     == Len(parts)
        kept  == IF parts[n] = << >> THEN n - 1 ELSE n
    IN  [i \in 1..kept |-> IF i < n THEN StripCr(parts[i]) ELSE parts[i]]

\* Path::to_str: None when the path is not valid UTF-8.
to_str(p) == IF Find(p, BadByte) = 0 THEN Some(p) ELSE None

\* writeln!: each line followed by "\n".
RECURSIVE WriteLines(_)
WriteLines(ls) ==
    IF Len(ls) = 0 THEN << >>
    ELSE ls[1] \o <<"\n">> \o WriteLines(Tail(ls))

(***************************************************************************)
(* The literals of the desktop-entry format.                               *)
(***************************************************************************)

K_Name       == <<"N","a","m","e">>
K_Path       == <<"P","a","t","h">>
K_Icon       == <<"I","c","o","n">>
K_Comment    == <<"C","o","m","m","e","n","t">>
K_Exec       == <<"E","x","e","c">>
K_Terminal   == <<"T","e","r","m","i","n","a","l">>
K_Categories == <<"C","a","t","e","g","o","r","i","e","s">>
S_Header     == <<"[","D","e","s","k","t","o","p"," ","E","n","t","r","y","]">>
S_TypeApp    == <<"T","y","p","e","=","A","p","p","l","i","c","a","t","i","o","n">>
S_true       == <<"t","r","u","e">>
S_false      == <<"f","a","l","s","e">>
Eq           == <<"=">>


(***************************************************************************)
(* Results.  A call ends with Ok(value), with Err(error) or by panicking    *)
(* (an unwrap on None, todo!): a panic unwinds through the caller and is   *)
(* no value of the call's Result type.                                     *)
(***************************************************************************)

NoResult == [kind |-> "None",  err |-> "", native |-> "", detail |-> << >>, val |-> None]
Ok(v)    == [kind |-> "Ok",    err |-> "", native |-> "", detail |-> << >>, val |-> v]
Panic    == [kind |-> "Panic", err |-> "", native |-> "", detail |-> << >>, val |-> None]
\* An error of the platform codec (LinuxShortcutError / WindowsShortcutError).
CodecErr(e, d) ==
    [kind |-> "Err", err |-> e, native |-> "", detail |-> d, val |-> None]
\* An error of the facade's own (FileShortcutError but NativeError).
FacadeErr(e, d) ==
    [kind |-> "Err", err |-> e, native |-> "", detail |-> d, val |-> None]

\* map_err(FileShortcutError::from): a codec error becomes NativeError(e);
\* Ok and a panic pass through.
map_err_from(r) ==
    IF r.kind = "Err"
    THEN [r EXCEPT !.err = "NativeError", !.native = r.err]
    ELSE r

(***************************************************************************)
(* ShortcutFile and its builder (mod.rs).                                  *)
(***************************************************************************)

new(name, path) ==
    [name              |-> name,
     description       |-> None,
     path              |-> path,
     arguments         |-> << >>,
     icon              |-> None,
     working_directory |-> None,
     show_terminal     |-> FALSE,
     categories        |-> << >>]

description(self, d)       == [self EXCEPT !.description = Some(d)]
working_directory(self, w) == [self EXCEPT !.working_directory = Some(w)]
\* arg putting the token in front of the earlier ones.
arg_push_front(self, a)    == [self EXCEPT !.arguments = <<a>> \o @]
arg(self, a)               == [self EXCEPT !.arguments = Append(@, a)]
arguments(self, as)        == [self EXCEPT !.arguments = as]
icon(self, i)              == [self EXCEPT !.icon = Some(i)]
show_terminal(self)        == [self EXCEPT !.show_terminal = TRUE]
category(self, c)          == [self EXCEPT !.categories = Append(@, c)]
categories(self, cs)       == [self EXCEPT !.categories = cs]

(***************************************************************************)
(* The text codec's write (linux.rs, save_shortcut_file).                  *)
(***************************************************************************)

\* OpenOptions::new().write(true).create(true).open(to): an absent file is
\* created empty, an existing file keeps its content (no truncate(true)).
open_write_create(old) == IF IsSome(old) THEN old ELSE Some(<< >>)

\* Writing `out` from offset 0 into a file holding `old`: the bytes of old
\* past the end of out stay.
write_at_start(old, out) == out \o SubSeq(old, Len(out) + 1, Len(old))

exec_line(command, args) ==
    IF Len(args) # 0
    THEN K_Exec \o Eq \o command \o <<" ">> \o Join(args, <<" ">>)
    ELSE K_Exec \o Eq \o command

terminal_line(flag) ==
    IF flag THEN K_Terminal \o Eq \o S_true ELSE K_Terminal \o Eq \o S_false

categories_line(cats) ==
    IF Len(cats) # 0
    THEN Some(K_Categories \o Eq \o Join(cats, <<";">>) \o <<";">>)
    ELSE None

\* save_lines with the Icon line written before the Path line.
save_lines_icon_first(name, exec, wd, ic, desc, term, cats) ==
    <<S_Header, S_TypeApp, K_Name \o Eq \o name, exec>>
        \o ic \o wd \o desc \o <<term>> \o cats

\* The lines the writeln! calls emit, in their order.  An Option is a
\* sequence of zero or one line, so \o keeps a present line and drops None.
save_lines(name, exec, wd, ic, desc, term, cats) ==
    <<S_Header, S_TypeApp, K_Name \o Eq \o name, exec>>
        \o wd \o ic \o desc \o <<term>> \o cats

\* [res, file, emitted]: the call's result, the destination file afterwards
\* and the characters handed to the writer.
save_shortcut_file(shortcut, old) ==
    LET file    == open_write_create(old)
        command == to_str(shortcut.path)
        wdir    == IF IsSome(shortcut.working_directory)
                   THEN to_str(Unwrap(shortcut.working_directory)) ELSE None
        icn     == IF IsSome(shortcut.icon)
                   THEN to_str(Unwrap(shortcut.icon)) ELSE None
        failed  == [res     |-> CodecErr("PathNotValidUTF8", << >>),
                    file    |-> file,
                    emitted |-> << >>]
    IN  IF ~IsSome(command) THEN failed
        ELSE IF IsSome(shortcut.working_directory) /\ ~IsSome(wdir) THEN failed
        ELSE IF IsSome(shortcut.icon) /\ ~IsSome(icn) THEN failed
        ELSE
          LET out == WriteLines(save_lines(
                       shortcut.name,
                       exec_line(Unwrap(command), shortcut.arguments),
                       IF IsSome(wdir) THEN Some(K_Path \o Eq \o Unwrap(wdir)) ELSE None,
                       IF IsSome(icn) THEN Some(K_Icon \o Eq \o Unwrap(icn)) ELSE None,
                       IF IsSome(shortcut.description)
                       THEN Some(K_Comment \o Eq \o Unwrap(shortcut.description))
                       ELSE None,
                       terminal_line(shortcut.show_terminal),
                       categories_line(shortcut.categories)))
          IN  [res     |-> Ok(None),
               file    |-> Some(write_at_start(Unwrap(file), out)),
               emitted |-> out]

(***************************************************************************)
(* The text codec's read (linux.rs, read_shortcut_file).                   *)
(***************************************************************************)

\* The locals of read_shortcut_file before the loop; panicked is set when
\* an unwrap on None aborts the call.
ReadLocals ==
    [name              |-> None,
     path              |-> None,
     icon              |-> None,
     description       |-> None,
     arguments         |-> None,
     working_directory |-> None,
     show_terminal     |-> FALSE,
     categories        |-> None,
     panicked          |-> FALSE]

\* line.splitn(2, '='): <<key>> when the line has no '=', else <<key, value>>.
splitn2(line) ==
    LET i == Find(line, "=")
    IN  IF i = 0 THEN <<line>>
        ELSE <<SubSeq(line, 1, i - 1), SubSeq(line, i + 1, Len(line))>>

\* parse_terminal taking every value but "false" for true.
parse_terminal_not_false(value) == value # S_false

\* value == "true"
parse_terminal(value) == value = S_true

\* The match on the key.
match_key(st, key, value) ==
    IF key = K_Name THEN [st EXCEPT !.name = Some(value)]
    ELSE IF key = K_Path THEN [st EXCEPT !.working_directory = Some(value)]
    ELSE IF key = K_Icon THEN [st EXCEPT !.icon = Some(value)]
    ELSE IF key = K_Comment THEN [st EXCEPT !.description = Some(value)]
    ELSE IF key = K_Exec THEN
        LET split == Split(value, " ")
        IN  [st EXCEPT !.path = Some(split[1]), !.arguments = Some(Tail(split))]
    ELSE IF key = K_Terminal THEN [st EXCEPT !.show_terminal = parse_terminal(value)]
    ELSE IF key = K_Categories THEN [st EXCEPT !.categories = Some(Split(value, ";"))]
    ELSE st

\* Whether the second split.next().unwrap() finds a value.
has_value(split) == Len(split) = 2

\* One turn of the loop over read.lines().
read_line(st, raw) ==
    LET line == Trim(raw)
    IN  IF line = << >> THEN st
        ELSE IF line[1] = "#" THEN st
        ELSE LET split == splitn2(line)
             IN  IF ~has_value(split) THEN [st EXCEPT !.panicked = TRUE]
                 ELSE match_key(st, split[1], split[2])

RECURSIVE read_loop(_, _, _)
read_loop(st, lines, i) ==
    IF i > Len(lines) \/ st.panicked THEN st
    ELSE read_loop(read_line(st, lines[i]), lines, i + 1)

unwrap_or_default(o) == IF IsSome(o) THEN Unwrap(o) ELSE << >>

read_shortcut_file(file) ==
    IF ~IsSome(file) \/ Find(Unwrap(file), BadByte) # 0
    THEN CodecErr("IOErr", << >>)
    ELSE
      LET st == read_loop(ReadLocals, Lines(Unwrap(file)), 1)
      IN  IF st.panicked THEN Panic
          ELSE IF ~IsSome(st.name) THEN CodecErr("MissingValue", K_Name)
          ELSE IF ~IsSome(st.path) THEN CodecErr("MissingValue", K_Path)
          ELSE Ok(Some([name              |-> Unwrap(st.name),
                        description       |-> st.description,
                        path              |-> Unwrap(st.path),
                        arguments         |-> unwrap_or_default(st.arguments),
                        icon              |-> st.icon,
                        working_directory |-> st.working_directory,
                        show_terminal     |-> st.show_terminal,
                        categories        |-> unwrap_or_default(st.categories)]))


(***************************************************************************)
(* The facade (mod.rs, ShortcutFile::save and ShortcutFile::read) over the  *)
(* text codec.                                                             *)
(***************************************************************************)

\* Paths on the disk the model runs on.
P_bin     == <<"/","p">>
P_icon    == <<"/","i">>
P_wd      == <<"/","w">>
P_missing == <<"/","q">>
P_bad     == <<"/", BadByte>>

\* Path::exists for the paths above: everything but P_missing is there.
ExistingPaths == {P_bin, P_icon, P_wd, P_bad}
exists(p) == p \in ExistingPaths

\* save_checks looking at the working directory before the icon.
save_checks_wd_first(self) ==
    IF ~exists(self.path)
    THEN Some(FacadeErr("TargetPathDoesNotExist", self.path))
    ELSE IF IsSome(self.working_directory) /\ ~exists(Unwrap(self.working_directory))
    THEN Some(FacadeErr("WorkingDirectoryPathDoesNotExist",
                        Unwrap(self.working_directory)))
    ELSE IF IsSome(self.icon) /\ ~exists(Unwrap(self.icon))
    THEN Some(FacadeErr("IconPathDoesNotExist", Unwrap(self.icon)))
    ELSE None

\* The three checks of save, in the code's order: the error to return, or
\* None when the codec is to be called.
save_checks(self) ==
    IF ~exists(self.path)
    THEN Some(FacadeErr("TargetPathDoesNotExist", self.path))
    ELSE IF IsSome(self.icon) /\ ~exists(Unwrap(self.icon))
    THEN Some(FacadeErr("IconPathDoesNotExist", Unwrap(self.icon)))
    ELSE IF IsSome(self.working_directory) /\ ~exists(Unwrap(self.working_directory))
    THEN Some(FacadeErr("WorkingDirectoryPathDoesNotExist",
                        Unwrap(self.working_directory)))
    ELSE None

VARIABLES
    file,        \* the destination file: None, or Some(its characters)
    request,     \* the record of the last save call (Option)
    result,      \* what the last call returned
    op,          \* the last call: "none", "save" or "read"
    emitted,     \* the characters the last save handed to its writer
    codecCalled, \* whether the last save reached the codec's write
    saved,       \* the record of the last write that returned Ok (Option)
    saves        \* the number of save calls so far

linuxVars == <<file, request, result, op, emitted, codecCalled, saved, saves>>

VARIABLES
    shortcut,    \* the ShortcutFile value the caller holds (Option)
    lastCall     \* the builder call that made it: [fn, arg]

builderVars == <<shortcut, lastCall>>

VARIABLES
    once,        \* CO_INITIALIZE_ONCE: "Incomplete", "Running" or "Complete"
    coInitCalls, \* how many times CoInitializeEx was executed
    comReady,    \* whether CoInitializeEx succeeded
    firstCaller, \* the first thread to reach call_once (Option)
    initBy,      \* the thread that executed CoInitializeEx (Option)
    pc,          \* where each thread is
    wreq,        \* the record each thread is saving (Option)
    wop,         \* the last call to finish: "none", "save" or "read"
    wres,        \* what that call returned
    link         \* the shell link at the destination (Option)

winVars == <<once, coInitCalls, comReady, firstCaller, initBy, pc, wreq, wop,
             wres, link>>

vars == <<linuxVars, builderVars, winVars>>

\* The number of threads calling into the shell-link codec.
NumThreads == 2
\* The bound on the tokens arg and category append to a sequence.
MaxTokens == 2

Threads == 1..NumThreads

LinuxIdle ==
    /\ file = None
    /\ request = None
    /\ result = NoResult
    /\ op = "none"
    /\ emitted = << >>
    /\ codecCalled = FALSE
    /\ saved = None
    /\ saves = 0

BuilderIdle ==
    /\ shortcut = None
    /\ lastCall = [fn |-> "none", arg |-> << >>]

WinIdle ==
    /\ once = "Incomplete"
    /\ coInitCalls = 0
    /\ comReady = FALSE
    /\ firstCaller = None
    /\ initBy = None
    /\ pc = [t \in Threads |-> "idle"]
    /\ wreq = [t \in Threads |-> None]
    /\ wop = "none"
    /\ wres = NoResult
    /\ link = None

\* The bound on the number of save calls in one behaviour.
MaxSaves == 2
\* The bound on the number of free lines of a file found on the disk.
MaxLines == 2

D_text == <<"d">>
A_l    == <<"-","l">>
A_a    == <<"-","a">>
C_U    == <<"U">>
C_S    == <<"S">>
N_T    == <<"T">>

ArgLists == {<< >>, <<A_l>>, <<A_l, A_a>>}
CatLists == {<< >>, <<C_U>>, <<C_U, C_S>>}

\* Records whose paths all exist and are valid text: every choice of the
\* optional fields and of the flag, with one argument and no category.
OptionRecords ==
    {[name              |-> N_T,
      description       |-> d,
      path              |-> P_bin,
      arguments         |-> <<A_l>>,
      icon              |-> i,
      working_directory |-> w,
      show_terminal     |-> t,
      categories        |-> << >>] :
        d \in {None, Some(D_text)}, i \in {None, Some(P_icon)},
        w \in {None, Some(P_wd)}, t \in BOOLEAN}

\* Every choice of the two token sequences, with no optional field set or
\* with all of them.
ListRecords ==
    {[name              |-> N_T,
      description       |-> o[1],
      path              |-> P_bin,
      arguments         |-> a,
      icon              |-> o[2],
      working_directory |-> o[3],
      show_terminal     |-> FALSE,
      categories        |-> c] :
        a \in ArgLists, c \in CatLists,
        o \in {<<None, None, None>>, <<Some(D_text), Some(P_icon), Some(P_wd)>>}}

\* The shape of the record of test_save_shortcut_file: a description, an
\* icon, one argument, two categories, no working directory.
TestRecord ==
    [name              |-> N_T,
     description       |-> Some(D_text),
     path              |-> P_bin,
     arguments         |-> <<A_l>>,
     icon              |-> Some(P_icon),
     working_directory |-> None,
     show_terminal     |-> FALSE,
     categories        |-> <<C_U, C_S>>]

\* A description of two lines (a String may hold any character).
D_lines == <<"d", "\n">> \o K_Terminal \o Eq \o S_true

MultiLineRecord == [TestRecord EXCEPT !.description = Some(D_lines)]

TextRecords == OptionRecords \cup ListRecords \cup {TestRecord, MultiLineRecord}

\* Records whose paths vary: present, missing, not valid UTF-8.
PathRecords ==
    {[new(N_T, p) EXCEPT !.icon = i, !.working_directory = w] :
        p \in {P_bin, P_missing, P_bad},
        i \in {None, Some(P_icon), Some(P_missing)},
        w \in {None, Some(P_wd), Some(P_missing)}}
    \cup {[new(N_T, P_bin) EXCEPT !.icon = Some(P_bad)],
          [new(N_T, P_bin) EXCEPT !.working_directory = Some(P_bad)]}


\* Lines of files some other program left on the disk.
L_Name      == K_Name \o Eq \o N_T
L_Exec      == K_Exec \o Eq \o P_bin \o <<" ">> \o A_l
L_Path      == K_Path \o Eq \o P_wd
L_TermTrue  == K_Terminal \o Eq \o S_true
L_TermFalse == K_Terminal \o Eq \o S_false
L_TermCap   == K_Terminal \o Eq \o <<"T","r","u","e">>
L_TermPad   == <<" ">> \o K_Terminal \o Eq \o S_true \o <<"\r">>
L_Cats      == K_Categories \o Eq \o C_U \o <<";">>
L_Foo       == <<"F","o","o","=","b","a","r">>
L_Comment   == <<"#","c">>
L_Blank     == << >>

LinePool ==
    {L_Name, L_Exec, L_Path, L_TermTrue, L_TermFalse, L_TermCap, L_TermPad,
     L_Cats, L_Foo, L_Comment, L_Blank, S_Header}

SeqsUpTo(S, n) == UNION {[1..k -> S] : k \in 0..n}

\* A file starts with nothing or with a Name and an Exec line, and goes on
\* with up to MaxLines lines of the pool.
Preludes == {<< >>, <<L_Name, L_Exec>>}

ExternalFiles ==
    {WriteLines(pre \o body) : pre \in Preludes, body \in SeqsUpTo(LinePool, MaxLines)}

InitLinux ==
    /\ file \in {None} \cup {Some(f) : f \in ExternalFiles}
    /\ request = None
    /\ result = NoResult
    /\ op = "none"
    /\ emitted = << >>
    /\ codecCalled = FALSE
    /\ saved = None
    /\ saves = 0
    /\ BuilderIdle /\ WinIdle

\* ShortcutFile::save(self, to)
Save(self) ==
    /\ saves < MaxSaves
    /\ saves' = saves + 1
    /\ UNCHANGED <<builderVars, winVars>>
    /\ op' = "save"
    /\ request' = Some(self)
    /\ LET check == save_checks(self)
       IN  IF IsSome(check)
           THEN /\ result' = Unwrap(check)
                /\ codecCalled' = FALSE
                /\ emitted' = << >>
                /\ UNCHANGED <<file, saved>>
           ELSE LET w == save_shortcut_file(self, file)
                IN  /\ result' = map_err_from(w.res)
                    /\ codecCalled' = TRUE
                    /\ emitted' = w.emitted
                    /\ file' = w.file
                    /\ saved' = IF w.res.kind = "Ok" THEN Some(self) ELSE saved

\* ShortcutFile::read(path)
Read ==
    /\ op' = "read"
    /\ result' = map_err_from(read_shortcut_file(file))
    /\ UNCHANGED <<file, request, emitted, codecCalled, saved, saves>>
    /\ UNCHANGED <<builderVars, winVars>>

\* The text codec behind the facade: records that pass the facade's checks
\* are saved over whatever the destination holds, and the destination is
\* read back.
NextLinux ==
    \/ \E self \in TextRecords : Save(self)
    \/ Read

Spec == InitLinux /\ [][NextLinux]_vars

\* The facade's checks: the destination is absent or holds a file this
\* program wrote earlier; the records' paths vary.
InitFacade ==
    /\ file \in {None, Some(save_shortcut_file(TestRecord, None).emitted)}
    /\ request = None
    /\ result = NoResult
    /\ op = "none"
    /\ emitted = << >>
    /\ codecCalled = FALSE
    /\ saved = None
    /\ saves = 0
    /\ BuilderIdle /\ WinIdle

NextFacade ==
    \/ \E self \in PathRecords : Save(self)
    \/ Read

SpecFacade == InitFacade /\ [][NextFacade]_vars


(***************************************************************************)
(* The caller building a ShortcutFile (mod.rs, impl ShortcutFile).          *)
(***************************************************************************)

Call(fn, a) == [fn |-> fn, arg |-> a]

New(n, p) ==
    /\ shortcut' = Some(new(n, p))
    /\ lastCall' = Call("new", <<n, p>>)
    /\ UNCHANGED <<linuxVars, winVars>>

Description(d) ==
    /\ IsSome(shortcut)
    /\ shortcut' = Some(description(Unwrap(shortcut), d))
    /\ lastCall' = Call("description", d)
    /\ UNCHANGED <<linuxVars, winVars>>

WorkingDirectory(w) ==
    /\ IsSome(shortcut)
    /\ shortcut' = Some(working_directory(Unwrap(shortcut), w))
    /\ lastCall' = Call("working_directory", w)
    /\ UNCHANGED <<linuxVars, winVars>>

Arg(a) ==
    /\ IsSome(shortcut)
    /\ Len(Unwrap(shortcut).arguments) < MaxTokens
    /\ shortcut' = Some(arg(Unwrap(shortcut), a))
    /\ lastCall' = Call("arg", a)
    /\ UNCHANGED <<linuxVars, winVars>>

Arguments(as) ==
    /\ IsSome(shortcut)
    /\ shortcut' = Some(arguments(Unwrap(shortcut), as))
    /\ lastCall' = Call("arguments", as)
    /\ UNCHANGED <<linuxVars, winVars>>

Icon(i) ==
    /\ IsSome(shortcut)
    /\ shortcut' = Some(icon(Unwrap(shortcut), i))
    /\ lastCall' = Call("icon", i)
    /\ UNCHANGED <<linuxVars, winVars>>

ShowTerminal ==
    /\ IsSome(shortcut)
    /\ shortcut' = Some(show_terminal(Unwrap(shortcut)))
    /\ lastCall' = Call("show_terminal", << >>)
    /\ UNCHANGED <<linuxVars, winVars>>

Category(c) ==
    /\ IsSome(shortcut)
    /\ Len(Unwrap(shortcut).categories) < MaxTokens
    /\ shortcut' = Some(category(Unwrap(shortcut), c))
    /\ lastCall' = Call("category", c)
    /\ UNCHANGED <<linuxVars, winVars>>

Categories(cs) ==
    /\ IsSome(shortcut)
    /\ shortcut' = Some(categories(Unwrap(shortcut), cs))
    /\ lastCall' = Call("categories", cs)
    /\ UNCHANGED <<linuxVars, winVars>>

InitBuilder == LinuxIdle /\ BuilderIdle /\ WinIdle

NextBuilder ==
    \/ New(N_T, P_bin)
    \/ Description(D_text)
    \/ WorkingDirectory(P_wd)
    \/ \E a \in {A_l, A_a} : Arg(a)
    \/ \E as \in ArgLists : Arguments(as)
    \/ Icon(P_icon)
    \/ ShowTerminal
    \/ \E c \in {C_U, C_S} : Category(c)
    \/ \E cs \in CatLists : Categories(cs)

SpecBuilder == InitBuilder /\ [][NextBuilder]_vars

(***************************************************************************)
(* The shell-link codec (windows.rs) behind the facade, called from        *)
(* several threads.                                                        *)
(***************************************************************************)

\* CString::new: an interior NUL is an error.
string_to_c_string(str) ==
    IF Find(str, Nul) # 0 THEN Some("StringToCStringError") ELSE None

path_to_c_string(p) ==
    IF ~IsSome(to_str(p)) THEN Some("PathToStringError")
    ELSE string_to_c_string(p)

arguments_to_string(args) == string_to_c_string(Join(args, <<" ">>))

\* The conversions of save_shortcut_file in their order, each followed by
\* `?`: the first error, or None.
win_convert(self) ==
    LET e1 == path_to_c_string(self.path)
        e2 == IF IsSome(self.description)
              THEN string_to_c_string(Unwrap(self.description)) ELSE None
        e3 == arguments_to_string(self.arguments)
        e4 == IF IsSome(self.icon) THEN path_to_c_string(Unwrap(self.icon)) ELSE None
        e5 == IF IsSome(self.working_directory)
              THEN path_to_c_string(Unwrap(self.working_directory)) ELSE None
    IN  IF IsSome(e1) THEN e1
        ELSE IF IsSome(e2) THEN e2
        ELSE IF IsSome(e3) THEN e3
        ELSE IF IsSome(e4) THEN e4
        ELSE e5

\* What the IShellLinkA setters and IPersistFile::Save leave at the
\* destination.
shell_link(self) ==
    [path              |-> self.path,
     arguments         |-> Join(self.arguments, <<" ">>),
     show_cmd          |-> IF self.show_terminal THEN "SW_SHOW" ELSE "SW_HIDE",
     description       |-> self.description,
     working_directory |-> self.working_directory,
     icon_location     |-> self.icon,
     icon_index        |-> IF IsSome(self.icon) THEN Some("0") ELSE None]

\* todo!("Support reading shortcuts"): the call panics.
win_read_shortcut_file == Panic

\* Once::call_once on a Once that is Running as if it were Incomplete (a
\* check of the state that is not atomic with setting it).
call_once_racy(state) ==
    IF state = "Complete" THEN "return" ELSE "run"

\* Once::call_once: the caller that finds the Once Incomplete runs the
\* closure, one that finds it Running waits for it to complete, one that
\* finds it Complete returns at once.
call_once(state) ==
    IF state = "Incomplete" THEN "run"
    ELSE IF state = "Running" THEN "wait"
    ELSE "return"

D_nul == <<"d", Nul>>

WinRecords ==
    {new(N_T, P_bin),
     [new(N_T, P_bin) EXCEPT !.description = Some(D_text), !.icon = Some(P_icon),
                             !.show_terminal = TRUE, !.arguments = <<A_l, A_a>>],
     [new(N_T, P_bin) EXCEPT !.description = Some(D_nul)],
     new(N_T, P_bad),
     new(N_T, P_missing)}

WinFinish(t, o, r) ==
    /\ wop' = o
    /\ wres' = r
    /\ wreq' = [wreq EXCEPT ![t] = None]

\* ShortcutFile::save up to the call of the codec.
WinSave(t, self) ==
    /\ pc[t] = "idle"
    /\ LET check == save_checks(self)
       IN  IF IsSome(check)
           THEN /\ WinFinish(t, "save", Unwrap(check))
                /\ UNCHANGED pc
           ELSE /\ pc' = [pc EXCEPT ![t] = "call_once"]
                /\ wreq' = [wreq EXCEPT ![t] = Some(self)]
                /\ UNCHANGED <<wop, wres>>
    /\ UNCHANGED <<once, coInitCalls, comReady, firstCaller, initBy, link>>
    /\ UNCHANGED <<linuxVars, builderVars>>

\* initialize_com: CO_INITIALIZE_ONCE.call_once(..)
CallOnce(t) ==
    /\ pc[t] = "call_once"
    /\ firstCaller' = IF IsSome(firstCaller) THEN firstCaller ELSE Some(t)
    /\ LET todo == call_once(once)
       IN  /\ once' = IF todo = "run" THEN "Running" ELSE once
           /\ pc' = [pc EXCEPT ![t] = IF todo = "run" THEN "closure"
                                      ELSE IF todo = "wait" THEN "blocked"
                                      ELSE "convert"]
    /\ UNCHANGED <<coInitCalls, comReady, initBy, wreq, wop, wres, link>>
    /\ UNCHANGED <<linuxVars, builderVars>>

\* The closure: CoInitializeEx(None, COINIT_MULTITHREADED).ok(), its
\* HRESULT dropped.
CoInitialize(t) ==
    /\ pc[t] = "closure"
    /\ coInitCalls' = coInitCalls + 1
    /\ initBy' = Some(t)
    /\ \E hr \in BOOLEAN : comReady' = (comReady \/ hr)
    /\ pc' = [pc EXCEPT ![t] = "closure_done"]
    /\ UNCHANGED <<once, firstCaller, wreq, wop, wres, link>>
    /\ UNCHANGED <<linuxVars, builderVars>>

\* The closure has returned: the Once is Complete.
OnceComplete(t) ==
    /\ pc[t] = "closure_done"
    /\ once' = "Complete"
    /\ pc' = [pc EXCEPT ![t] = "convert"]
    /\ UNCHANGED <<coInitCalls, comReady, firstCaller, initBy, wreq, wop, wres, link>>
    /\ UNCHANGED <<linuxVars, builderVars>>

\* A caller that waited goes on once the Once is Complete.
Unblock(t) ==
    /\ pc[t] = "blocked"
    /\ once = "Complete"
    /\ pc' = [pc EXCEPT ![t] = "convert"]
    /\ UNCHANGED <<once, coInitCalls, comReady, firstCaller, initBy, wreq, wop, wres, link>>
    /\ UNCHANGED <<linuxVars, builderVars>>

\* The conversions to CString.
Convert(t) ==
    /\ pc[t] = "convert"
    /\ LET e == win_convert(Unwrap(wreq[t]))
       IN  IF IsSome(e)
           THEN /\ WinFinish(t, "save", map_err_from(CodecErr(Unwrap(e), << >>)))
                /\ pc' = [pc EXCEPT ![t] = "idle"]
           ELSE /\ pc' = [pc EXCEPT ![t] = "native"]
                /\ UNCHANGED <<wreq, wop, wres>>
    /\ UNCHANGED <<once, coInitCalls, comReady, firstCaller, initBy, link>>
    /\ UNCHANGED <<linuxVars, builderVars>>

\* CoCreateInstance, the setters, the cast and Save: any of them may fail
\* (and CoCreateInstance does when COM is not initialised); Save, the last,
\* writes the link.
Native(t) ==
    /\ pc[t] = "native"
    /\ \E ok \in BOOLEAN :
          /\ ok => comReady
          /\ IF ok
             THEN /\ link' = Some(shell_link(Unwrap(wreq[t])))
                  /\ WinFinish(t, "save", Ok(None))
             ELSE /\ link' = link
                  /\ WinFinish(t, "save",
                               map_err_from(CodecErr("WindowsError", << >>)))
    /\ pc' = [pc EXCEPT ![t] = "idle"]
    /\ UNCHANGED <<once, coInitCalls, comReady, firstCaller, initBy>>
    /\ UNCHANGED <<linuxVars, builderVars>>

\* ShortcutFile::read over the shell-link codec; the thread unwinds.
WinRead(t) ==
    /\ pc[t] = "idle"
    /\ WinFinish(t, "read", map_err_from(win_read_shortcut_file))
    /\ pc' = [pc EXCEPT ![t] = "panicked"]
    /\ UNCHANGED <<once, coInitCalls, comReady, firstCaller, initBy, link>>
    /\ UNCHANGED <<linuxVars, builderVars>>

InitWindows == LinuxIdle /\ BuilderIdle /\ WinIdle

NextWindows ==
    \E t \in Threads :
        \/ \E self \in WinRecords : WinSave(t, self)
        \/ CallOnce(t)
        \/ CoInitialize(t)
        \/ OnceComplete(t)
        \/ Unblock(t)
        \/ Convert(t)
        \/ Native(t)
        \/ WinRead(t)

SpecWindows == InitWindows /\ [][NextWindows]_vars

(***************************************************************************)
(* Claims about the text codec and the facade.                             *)
(***************************************************************************)

IsText(p) == \A i \in 1..Len(p) : p[i] # BadByte

NoChar(tokens, c) == \A i \in 1..Len(tokens) : \A j \in 1..Len(tokens[i]) : tokens[i][j] # c

\* The records C1 speaks of.
RoundTripRecord(r) ==
    /\ IsText(r.path)
    /\ IsSome(r.icon) => IsText(Unwrap(r.icon))
    /\ IsSome(r.working_directory) => IsText(Unwrap(r.working_directory))
    /\ NoChar(r.arguments, ";") /\ NoChar(r.arguments, " ")
    /\ NoChar(r.categories, ";") /\ NoChar(r.categories, " ")

\* C1: a record with text paths and tokens free of ';' and ' ', written by
\* save to the destination and read back from it, comes back equal in
\* every field.
C1_RoundTrip ==
    (op = "read" /\ IsSome(saved) /\ RoundTripRecord(Unwrap(saved)))
        => result = Ok(saved)

\* C3: after a write that returned Ok the destination holds exactly the
\* lines of the record just written, nothing of what it held before.
C3_FileIsLastRecord ==
    (op = "save" /\ result.kind = "Ok") => file = Some(emitted)

\* C9: read ends with a result, a record or an error, for every readable
\* text file; it never aborts.
C9_ReadNeverAborts ==
    (op = "read" /\ IsSome(file)) => result.kind \in {"Ok", "Err"}

\* The lines as the reader sees them: trimmed, blank and comment lines gone.
EntryLines(f) ==
    LET ls == Lines(f)
    IN  SelectSeq([i \in 1..Len(ls) |-> Trim(ls[i])],
                  LAMBDA l : l # << >> /\ l[1] # "#")

StartsWith(l, pre) == Len(l) >= Len(pre) /\ SubSeq(l, 1, Len(pre)) = pre

HasKeyLine(f, key) ==
    LET el == EntryLines(f)
    IN  \E i \in 1..Len(el) : StartsWith(el[i], key \o Eq)

MissingValue(key) == map_err_from(CodecErr("MissingValue", key))

\* C4: a file with no Name line is refused with MissingValue("Name"); one
\* with a Name line and no Exec line with MissingValue("Path"), a Path=
\* line or not; one with both never with a missing value.
C4_MissingKeys ==
    (op = "read" /\ IsSome(file)) =>
        LET f == Unwrap(file)
        IN  /\ ~HasKeyLine(f, K_Name) => result = MissingValue(K_Name)
            /\ (HasKeyLine(f, K_Name) /\ ~HasKeyLine(f, K_Exec))
                   => result = MissingValue(K_Path)
            /\ (HasKeyLine(f, K_Name) /\ HasKeyLine(f, K_Exec))
                   => result.native # "MissingValue"

\* Each token preceded by one space / followed by one ';'.
RECURSIVE SpacedTokens(_)
SpacedTokens(ts) ==
    IF ts = << >> THEN << >> ELSE <<" ">> \o Head(ts) \o SpacedTokens(Tail(ts))

RECURSIVE ClosedTokens(_)
ClosedTokens(ts) ==
    IF ts = << >> THEN << >> ELSE Head(ts) \o <<";">> \o ClosedTokens(Tail(ts))

Line(l) == l \o <<"\n">>

\* What C5 says the write emits for record r.
ExpectedOutput(r) ==
    Line(S_Header)
    \o Line(S_TypeApp)
    \o Line(K_Name \o Eq \o r.name)
    \o Line(K_Exec \o Eq \o r.path \o SpacedTokens(r.arguments))
    \o (IF IsSome(r.working_directory)
        THEN Line(K_Path \o Eq \o Unwrap(r.working_directory)) ELSE << >>)
    \o (IF IsSome(r.icon) THEN Line(K_Icon \o Eq \o Unwrap(r.icon)) ELSE << >>)
    \o (IF IsSome(r.description)
        THEN Line(K_Comment \o Eq \o Unwrap(r.description)) ELSE << >>)
    \o Line(K_Terminal \o Eq \o (IF r.show_terminal THEN S_true ELSE S_false))
    \o (IF r.categories # << >>
        THEN Line(K_Categories \o Eq \o ClosedTokens(r.categories)) ELSE << >>)

\* C5: a write that returns Ok has emitted, in this order, the header, the
\* type, Name, Exec (the path, then each argument after one space), Path
\* (if a working directory is set), Icon (if set), Comment (if a description
\* is set), Terminal, Categories (if there are any; each followed by ';').
C5_LineOrder ==
    (op = "save" /\ result.kind = "Ok") => emitted = ExpectedOutput(Unwrap(request))

\* A write of a record with every optional field, two arguments and two
\* categories has returned Ok.
C5_Witness ==
    /\ op = "save" /\ result.kind = "Ok"
    /\ IsSome(Unwrap(request).working_directory)
    /\ IsSome(Unwrap(request).icon)
    /\ IsSome(Unwrap(request).description)
    /\ Len(Unwrap(request).arguments) = 2
    /\ Len(Unwrap(request).categories) = 2

KeyOf(l)   == IF Find(l, "=") = 0 THEN l ELSE SubSeq(l, 1, Find(l, "=") - 1)
ValueOf(l) == SubSeq(l, Find(l, "=") + 1, Len(l))

\* The places of the Terminal lines among the lines el the reader sees.
TerminalLines(el) ==
    {i \in 1..Len(el) : Find(el[i], "=") # 0 /\ KeyOf(el[i]) = K_Terminal}

Max(S) == CHOOSE m \in S : \A x \in S : x <= m

ExpectedTerminal(r) ==
    K_Terminal \o Eq \o (IF r.show_terminal THEN S_true ELSE S_false)

\* The write half of C7 for the record r that was written.
OneTerminalLine(r) ==
    LET el == EntryLines(emitted)
    IN  /\ Cardinality(TerminalLines(el)) = 1
        /\ \A i \in TerminalLines(el) : el[i] = ExpectedTerminal(r)

HasLineBreak(r) ==
    \/ Find(r.name, "\n") # 0
    \/ (IsSome(r.description) /\ Find(Unwrap(r.description), "\n") # 0)
    \/ ~NoChar(r.arguments, "\n") \/ ~NoChar(r.categories, "\n")
    \/ Find(r.path, "\n") # 0
    \/ (IsSome(r.icon) /\ Find(Unwrap(r.icon), "\n") # 0)
    \/ (IsSome(r.working_directory) /\ Find(Unwrap(r.working_directory), "\n") # 0)

\* C7 as stated: the write emits exactly one Terminal line, Terminal=true
\* or Terminal=false after the flag; a read that returns a record has the
\* flag true exactly when some Terminal line of the file has the value
\* "true".
C7_TerminalFlag ==
    /\ (op = "save" /\ result.kind = "Ok") => OneTerminalLine(Unwrap(request))
    /\ (op = "read" /\ result.kind = "Ok") =>
          LET el == EntryLines(Unwrap(file))
          IN  Unwrap(result.val).show_terminal
                  <=> \E i \in TerminalLines(el) : ValueOf(el[i]) = S_true

\* C7 amended: the write emits one Terminal line after the flag (and no
\* other, when no field of the record holds a line break); a read that
\* returns a record has the flag true exactly when the file has a Terminal
\* line and the last of them has the value "true".
C7_LastTerminalLine ==
    /\ (op = "save" /\ result.kind = "Ok") =>
          LET el == EntryLines(emitted)
          IN  /\ \E i \in TerminalLines(el) : el[i] = ExpectedTerminal(Unwrap(request))
              /\ ~HasLineBreak(Unwrap(request)) => OneTerminalLine(Unwrap(request))
    /\ (op = "read" /\ result.kind = "Ok") =>
          LET el == EntryLines(Unwrap(file))
              tl == TerminalLines(el)
          IN  Unwrap(result.val).show_terminal
                  <=> (tl # {} /\ ValueOf(el[Max(tl)]) = S_true)

\* A read returned a record with the flag false from a file that has two
\* Terminal lines, the first of them Terminal=true.
C7_Witness ==
    /\ op = "read" /\ result.kind = "Ok"
    /\ ~Unwrap(result.val).show_terminal
    /\ LET el == EntryLines(Unwrap(file))
       IN  /\ Cardinality(TerminalLines(el)) = 2
           /\ \E i \in TerminalLines(el) : ValueOf(el[i]) = S_true

IsFacadeErr(r) ==
    r.kind = "Err" /\ r.err \in {"TargetPathDoesNotExist", "IconPathDoesNotExist",
                                 "WorkingDirectoryPathDoesNotExist"}

Missing(o) == IsSome(o) /\ ~exists(Unwrap(o))

\* C2: save returns the error of the first check that fails, the path,
\* then the icon, then the working directory; and when it returns one of
\* the three the codec's write was not called and the destination is as it
\* was.
C2_FirstFailingCheck ==
    [][op' = "save" =>
        LET r == Unwrap(request')
        IN  /\ ~exists(r.path)
                => result' = FacadeErr("TargetPathDoesNotExist", r.path)
            /\ (exists(r.path) /\ Missing(r.icon))
                => result' = FacadeErr("IconPathDoesNotExist", Unwrap(r.icon))
            /\ (exists(r.path) /\ ~Missing(r.icon) /\ Missing(r.working_directory))
                => result' = FacadeErr("WorkingDirectoryPathDoesNotExist",
                                       Unwrap(r.working_directory))
            /\ (exists(r.path) /\ ~Missing(r.icon) /\ ~Missing(r.working_directory))
                => ~IsFacadeErr(result')
            /\ IsFacadeErr(result') => (file' = file /\ ~codecCalled')
    ]_vars

\* save returned the icon error for a record whose working directory is
\* missing too, and the destination file, there before, is still there.
C2_Witness ==
    /\ op = "save"
    /\ result.err = "IconPathDoesNotExist"
    /\ Missing(Unwrap(request).working_directory)
    /\ IsSome(file)
    /\ ~codecCalled

(***************************************************************************)
(* Claims about the builder.                                               *)
(***************************************************************************)

Fields == {"name", "description", "path", "arguments", "icon",
           "working_directory", "show_terminal", "categories"}

\* Record b is record a but for field f.
OnlyChanged(a, b, f) == \A g \in Fields \ {f} : b[g] = a[g]

\* Sequence t is sequence s with x added at its end.
Appended(s, t, x) ==
    /\ Len(t) = Len(s) + 1
    /\ \A i \in 1..Len(s) : t[i] = s[i]
    /\ t[Len(t)] = x

\* C8: new(name, path) gives a record with nothing optional set, the flag
\* false and both sequences empty; every setter changes its own field and
\* no other: arg and category add their token at the end, arguments and
\* categories replace the sequence, show_terminal sets the flag.
C8_BuilderFrames ==
    [][IsSome(shortcut') =>
        LET c == lastCall'
            b == Unwrap(shortcut')
            a == Unwrap(shortcut)
        IN  /\ c.fn = "new" =>
                /\ b.name = c.arg[1] /\ b.path = c.arg[2]
                /\ b.description = None /\ b.icon = None
                /\ b.working_directory = None
                /\ b.show_terminal = FALSE
                /\ b.arguments = << >> /\ b.categories = << >>
            /\ c.fn = "description" =>
                b.description = Some(c.arg) /\ OnlyChanged(a, b, "description")
            /\ c.fn = "working_directory" =>
                b.working_directory = Some(c.arg)
                    /\ OnlyChanged(a, b, "working_directory")
            /\ c.fn = "icon" =>
                b.icon = Some(c.arg) /\ OnlyChanged(a, b, "icon")
            /\ c.fn = "show_terminal" =>
                b.show_terminal = TRUE /\ OnlyChanged(a, b, "show_terminal")
            /\ c.fn = "arg" =>
                Appended(a.arguments, b.arguments, c.arg)
                    /\ OnlyChanged(a, b, "arguments")
            /\ c.fn = "arguments" =>
                b.arguments = c.arg /\ OnlyChanged(a, b, "arguments")
            /\ c.fn = "category" =>
                Appended(a.categories, b.categories, c.arg)
                    /\ OnlyChanged(a, b, "categories")
            /\ c.fn = "categories" =>
                b.categories = c.arg /\ OnlyChanged(a, b, "categories")
    ]_vars

\* arg has added a second, different token to a record that already has a
\* description, an icon and a category.
C8_Witness ==
    /\ IsSome(shortcut)
    /\ lastCall.fn = "arg"
    /\ Len(Unwrap(shortcut).arguments) = 2
    /\ Unwrap(shortcut).arguments[1] # Unwrap(shortcut).arguments[2]
    /\ IsSome(Unwrap(shortcut).description)
    /\ IsSome(Unwrap(shortcut).icon)
    /\ Unwrap(shortcut).categories # << >>

(***************************************************************************)
(* Claims about the shell-link codec.                                      *)
(***************************************************************************)

\* C6: a read through the shell-link codec ends with an error returned to
\* the caller, the facade's NativeError around the codec's unsupported-
\* operation error; it never returns a record.
C6_ReadReturnsError ==
    wop = "read" => (wres.kind = "Err" /\ wres.err = "NativeError")

PastInit == {"convert", "native"}

\* C10: CoInitializeEx is executed at most once, by the first thread to
\* reach call_once, and exactly once by the time any thread is past
\* initialize_com, however the threads interleave.
C10_InitOnce ==
    /\ coInitCalls <= 1
    /\ IsSome(initBy) => initBy = firstCaller
    /\ \A t \in Threads : pc[t] \in PastInit => (coInitCalls = 1 /\ once = "Complete")
    /\ once = "Complete" => coInitCalls = 1

\* Two threads are past initialize_com, one of them not the initialiser,
\* and a save has already finished.
C10_Witness ==
    /\ coInitCalls = 1
    /\ \E t, u \in Threads :
          /\ t # u
          /\ pc[t] \in PastInit /\ pc[u] \in PastInit
          /\ initBy = Some(t)
    /\ wop = "save" /\ wres.kind = "Ok"

=============================================================================
